---- MODULE Spec2Model ----
(***************************************************************************)
(* mt::thread_pool (thread_pool.hpp) and mt::sort (sort.hpp) as a state    *)
(* machine.  One client thread owns the pool; the pool owns threads_amount *)
(* worker threads.  Every step is one critical section of queue_mutex or   *)
(* one run of code outside it.  std::condition_variable::wait is modelled  *)
(* as the standard defines it: it releases the mutex, blocks, is unblocked *)
(* by notify_one / notify_all or spuriously, and re-acquires the mutex     *)
(* before it returns.                                                      *)
(***************************************************************************)
EXTENDS Integers, Sequences, FiniteSets, TLC

\* ---- bounds of the model ----
MaxThreads == 2
MaxPush == 2
MaxLen == 3
MaxVal == 3
MaxCalls == 2
MaxOtherPush == 1

\* ---- threads ----
Workers == 1..MaxThreads
NoThread == 0

\* ---- tasks: what std::bind stored at push() ----
NoTask == [f |-> "none", a |-> 0, b |-> 0, id |-> 0]

Task(f, a, b, id) == [f |-> f, a |-> a, b |-> b, id |-> id]

\* no unique() call is running
NoUnique == [part_size |-> 0, spawned |-> 0, done |-> {}, ends |-> <<>>, last |-> 0,
             i |-> 0, pred |-> "none", oob |-> FALSE]

\* the argument pairs of the test driver's pushes
TestArgs == {<<123, 456>>, <<111, 222>>}

VARIABLES
    threads_amount,     \* constructor argument: number of workers spawned
    task_queue,         \* std::queue<std::function<void()>>
    queue_mutex,        \* holder of queue_mutex, NoThread when free
    active,             \* std::atomic<size_t> active
    shutdown_request,   \* volatile bool shutdown_request
    wpc,                \* position of each worker thread in worker()
    wtask,              \* the task a worker moved out of the queue
    wpush,              \* pushes the running task has still to make
    cpc,                \* position of the client thread
    in_dtor,            \* the client's wait() is the one of ~thread_pool
    npushed,            \* number of push() calls made by the client
    arr,                \* the caller's range [begin, end) given to sort()
    chunk_size,         \* sort()'s local chunk_size
    calls,              \* number of sort() calls begun in this process
    qs_env,             \* what the references captured by the static quick_sort designate
    input,              \* history: the range as it was when the current sort() call began
    first_result,       \* history: the range as the first sort() call left it
    pushed,             \* history: every task handed to push()
    started,            \* history: sequence of tasks as the workers ran them
    finished,           \* history: ids of tasks that returned
    uq                  \* the locals of a running unique() call

pool_vars == <<threads_amount, task_queue, queue_mutex, active, shutdown_request,
               wpc, wtask, wpush>>
hist_vars == <<pushed, started, finished>>
sort_vars == <<arr, chunk_size, calls, qs_env, input, first_result, uq>>
vars == <<threads_amount, task_queue, queue_mutex, active, shutdown_request,
          wpc, wtask, wpush, cpc, in_dtor, npushed, arr, chunk_size, calls, qs_env,
          input, first_result, pushed, started, finished, uq>>

\* ---- the pool's primitives ----

\* task_queue.emplace(task)
Emplace(q, t) == Append(q, t)

\* task_queue.front() moved out, then task_queue.pop()
Front(q) == Head(q)

\* mutant of PopFront: the front is moved out but not popped
PopFrontForgotten(q) == q

PopFront(q) == Tail(q)

\* condition_variable::notify_one on queue_cv: unblocks one of the threads blocked
\* in queue_cv.wait, if there is one; the result is the set of possible outcomes
\* mutant of NotifyOne: the notification is not sent
NotifyOneLost(pc) == {pc}

NotifyOne(pc) ==
    IF \A w \in Workers : pc[w] # "blocked"
    THEN {pc}
    ELSE {[pc EXCEPT ![w] = "woken"] : w \in {x \in Workers : pc[x] = "blocked"}}

\* condition_variable::notify_all on queue_cv: unblocks every thread blocked on it
NotifyAll(pc) == [w \in Workers |-> IF pc[w] = "blocked" THEN "woken" ELSE pc[w]]

\* condition_variable::notify_all on wait_cv: unblocks the client if it is blocked
\* in wait_cv.wait
NotifyWaiters(c) == IF c = "wait_blocked" THEN "wait_woken" ELSE c

\* the condition of wait(): block unless the pool looks quiescent
WaitMustBlock(q, a) == q # <<>> \/ a > 0

\* the worker's test after active--: signal wait_cv when no worker is draining
\* mutant of QuiescenceSignal: the last worker to go idle does not signal
QuiescenceSignalNever(a) == FALSE

\* mutant of QuiescenceSignal: the signal is sent while one worker is still draining
QuiescenceSignalEarly(a) == a <= 1

QuiescenceSignal(a) == a = 0

\* where wait() returns to: the caller's next statement, or the destructor's
AfterWait(d) == IF d THEN "d_flag" ELSE "waited"

\* ---- history bookkeeping (not program state) ----
Record(bag, t) ==
    IF t \in DOMAIN bag THEN [bag EXCEPT ![t] = @ + 1] ELSE bag @@ (t :> 1)

\* ---- thread_pool::add: lock, emplace, notify_one, unlock ----
add(t) ==
    /\ queue_mutex = NoThread
    /\ task_queue' = Emplace(task_queue, t)
    /\ wpc' \in NotifyOne(wpc)
    /\ pushed' = pushed \cup {t}

\* ---- mt::sort: the comparison, the two partitions and the base case ----

\* std::less, the default Compare
cmp(x, y) == x < y

\* the two partition predicates of quick_sort: cmp(em, pivot) and !cmp(pivot, em)
Pred(mode, em, pivot) == IF mode = 1 THEN cmp(em, pivot) ELSE ~cmp(pivot, em)

Swap(s, i, j) == [s EXCEPT ![i] = s[j], ![j] = s[i]]

\* std::partition over [first, last) (iterators are offsets from begin; *it is
\* s[it + 1]): skip the leading elements that satisfy the predicate, skip the
\* trailing ones that do not, swap the pair found, repeat
RECURSIVE SkipTrue(_, _, _, _, _)
SkipTrue(s, first, last, mode, pivot) ==
    IF first = last THEN first
    ELSE IF Pred(mode, s[first + 1], pivot)
         THEN SkipTrue(s, first + 1, last, mode, pivot)
         ELSE first

RECURSIVE SkipFalse(_, _, _, _, _)
SkipFalse(s, first, last, mode, pivot) ==
    IF first = last THEN last
    ELSE IF ~Pred(mode, s[last + 1], pivot)
         THEN SkipFalse(s, first, last - 1, mode, pivot)
         ELSE last

RECURSIVE Partition(_, _, _, _, _)
Partition(s, first, last, mode, pivot) ==
    LET f1 == SkipTrue(s, first, last, mode, pivot) IN
    IF f1 = last THEN [arr |-> s, mid |-> f1]
    ELSE LET l1 == SkipFalse(s, f1, last - 1, mode, pivot) IN
         IF f1 = l1 THEN [arr |-> s, mid |-> f1]
         ELSE Partition(Swap(s, f1 + 1, l1 + 1), f1 + 1, l1, mode, pivot)

\* std::sort(begin, end, cmp): insertion of each element into the sorted prefix
RECURSIVE Insert(_, _)
Insert(sorted, x) ==
    IF sorted = <<>> THEN <<x>>
    ELSE IF cmp(x, Head(sorted)) THEN <<x>> \o sorted
         ELSE <<Head(sorted)>> \o Insert(Tail(sorted), x)

RECURSIVE InsertionSort(_)
InsertionSort(s) == IF s = <<>> THEN <<>> ELSE Insert(InsertionSort(Tail(s)), Head(s))

StdSort(s, b, e) == SubSeq(s, 1, b) \o InsertionSort(SubSeq(s, b + 1, e)) \o SubSeq(s, e + 1, Len(s))

\* the element quick_sort takes as pivot: *std::next(begin, distance(begin, end) / 2)
Pivot(s, b, e) == s[b + ((e - b) \div 2) + 1]

\* mutant of Children: the second task starts at middle1, so it keeps the pivot
ChildrenKeepPivot(t, m1, m2) ==
    << Task(t.f, t.a, m1, 10 * t.id + 1), Task(t.f, m1, t.b, 10 * t.id + 2) >>

\* mutant of Children: the middle section is handed to both tasks
ChildrenWithMiddle(t, m1, m2) ==
    << Task(t.f, t.a, m2, 10 * t.id + 1), Task(t.f, m1, t.b, 10 * t.id + 2) >>

\* the two tasks a partition step pushes: [begin, middle1) and [middle2, end)
Children(t, m1, m2) ==
    << Task(t.f, t.a, m1, 10 * t.id + 1), Task(t.f, m2, t.b, 10 * t.id + 2) >>

\* one run of the quick_sort closure on [t.a, t.b), reading cs as chunk_size
quick_sort(t, s, cs) ==
    LET sz == t.b - t.a IN
    IF sz <= 1 THEN [arr |-> s, kids |-> <<>>]
    ELSE IF sz > cs
         THEN LET pivot == Pivot(s, t.a, t.b)
                  p1 == Partition(s, t.a, t.b, 1, pivot)
                  p2 == Partition(p1.arr, p1.mid, t.b, 2, pivot)
              IN [arr |-> p2.arr, kids |-> Children(t, p1.mid, p2.mid)]
         ELSE [arr |-> StdSort(s, t.a, t.b), kids |-> <<>>]

\* a task of the pool's clients that pushes two tasks from inside a running task
\* (the two pushes of quick_sort without the range); the pushed tasks are plain
\* functions that return
fanout(t, s) ==
    [arr |-> s,
     kids |-> << Task("f_without_arg", 0, 0, 10 * t.id + 1),
                 Task("f_without_arg", 0, 0, 10 * t.id + 2) >>]

\* the body of a task: what it does to the range and which pushes it makes
TaskBody(t, s, cs) ==
    CASE t.f = "quick_sort" -> quick_sort(t, s, cs)
      [] t.f = "fanout" -> fanout(t, s)
      [] OTHER -> [arr |-> s, kids |-> <<>>]

\* the value a task reads through the captured reference to chunk_size: the
\* local of the running call, or, when the reference dangles into other memory,
\* whatever that memory holds
ChunkSizeRead == IF qs_env = "stale" THEN 0..MaxLen ELSE {chunk_size}

\* ---- thread_pool::worker ----

\* unique_lock constructor, or the re-acquisition that ends queue_cv.wait; then
\* the loop's first statement, active++
WorkerLock(w) ==
    /\ wpc[w] \in {"start", "woken"}
    /\ queue_mutex = NoThread
    /\ queue_mutex' = w
    /\ active' = active + 1
    /\ wpc' = [wpc EXCEPT ![w] = "drain"]
    /\ UNCHANGED <<threads_amount, task_queue, shutdown_request, wtask, wpush, cpc,
                   in_dtor, npushed, sort_vars, hist_vars>>

\* while (!task_queue.empty()): move the front out, pop, unlock
WorkerPop(w) ==
    /\ wpc[w] = "drain"
    /\ task_queue # <<>>
    /\ wtask' = [wtask EXCEPT ![w] = Front(task_queue)]
    /\ task_queue' = PopFront(task_queue)
    /\ queue_mutex' = NoThread
    /\ wpc' = [wpc EXCEPT ![w] = "task"]
    /\ UNCHANGED <<threads_amount, active, shutdown_request, wpush, cpc, in_dtor,
                   npushed, sort_vars, hist_vars>>

\* task(): the body runs without the lock
TaskRun(w) ==
    /\ wpc[w] = "task"
    /\ wtask[w].f # "f_throw"
    /\ \E cs \in ChunkSizeRead :
         LET r == TaskBody(wtask[w], arr, cs) IN
         /\ arr' = r.arr
         /\ wpush' = [wpush EXCEPT ![w] = r.kids]
    /\ started' = Record(started, wtask[w])
    /\ wpc' = [wpc EXCEPT ![w] = "push"]
    /\ UNCHANGED <<threads_amount, task_queue, queue_mutex, active, shutdown_request,
                   wtask, cpc, in_dtor, npushed, chunk_size, calls, qs_env, input,
                   first_result, pushed, finished, uq>>

\* pool.push(...) from inside the running task
TaskPush(w) ==
    /\ wpc[w] = "push"
    /\ wpush[w] # <<>>
    /\ qs_env # "stale"
    /\ add(Head(wpush[w]))
    /\ wpush' = [wpush EXCEPT ![w] = Tail(wpush[w])]
    /\ UNCHANGED <<threads_amount, queue_mutex, active, shutdown_request, wtask, cpc,
                   in_dtor, npushed, sort_vars, started, finished>>

\* the task returns; queue_mutex.lock()
TaskReturn(w) ==
    /\ wpc[w] = "push"
    /\ wpush[w] = <<>>
    /\ queue_mutex = NoThread
    /\ queue_mutex' = w
    /\ finished' = finished \cup {wtask[w].id}
    /\ wtask' = [wtask EXCEPT ![w] = NoTask]
    /\ wpc' = [wpc EXCEPT ![w] = "drain"]
    /\ UNCHANGED <<threads_amount, task_queue, active, shutdown_request, wpush, cpc,
                   in_dtor, npushed, sort_vars, pushed, started>>

\* the queue is empty: active--, and wait_cv.notify_all() if active == 0
WorkerIdle(w) ==
    /\ wpc[w] = "drain"
    /\ task_queue = <<>>
    /\ active' = active - 1
    /\ cpc' = IF QuiescenceSignal(active') THEN NotifyWaiters(cpc) ELSE cpc
    /\ wpc' = [wpc EXCEPT ![w] = "chk"]
    /\ UNCHANGED <<threads_amount, task_queue, queue_mutex, shutdown_request, wtask,
                   wpush, in_dtor, npushed, sort_vars, hist_vars>>

\* if (shutdown_request) return; the unique_lock releases the mutex
WorkerCheckShutdown(w) ==
    /\ wpc[w] = "chk"
    /\ IF shutdown_request
       THEN /\ wpc' = [wpc EXCEPT ![w] = "exited"]
            /\ queue_mutex' = NoThread
       ELSE /\ wpc' = [wpc EXCEPT ![w] = "towait"]
            /\ UNCHANGED queue_mutex
    /\ UNCHANGED <<threads_amount, task_queue, active, shutdown_request, wtask, wpush,
                   cpc, in_dtor, npushed, sort_vars, hist_vars>>

\* queue_cv.wait(lock): release the mutex and block
WorkerWait(w) ==
    /\ wpc[w] = "towait"
    /\ queue_mutex' = NoThread
    /\ wpc' = [wpc EXCEPT ![w] = "blocked"]
    /\ UNCHANGED <<threads_amount, task_queue, active, shutdown_request, wtask, wpush,
                   cpc, in_dtor, npushed, sort_vars, hist_vars>>

\* queue_cv.wait may unblock spuriously
WorkerSpuriousWake(w) ==
    /\ wpc[w] = "blocked"
    /\ wpc' = [wpc EXCEPT ![w] = "woken"]
    /\ UNCHANGED <<threads_amount, task_queue, queue_mutex, active, shutdown_request,
                   wtask, wpush, cpc, in_dtor, npushed, sort_vars, hist_vars>>

\* ---- the client thread: push() and wait() ----

\* the tasks the test driver pushes: f_with_args(a, b), and a task that fans out
ClientTasks(id) ==
    {Task("f_with_args", x[1], x[2], id) : x \in TestArgs}
        \cup {Task("fanout", 0, 0, id)}

\* tpool.push(f, args...)
ClientPush ==
    /\ cpc = "ready"
    /\ npushed < MaxPush
    /\ \E t \in ClientTasks(npushed + 1) : add(t)
    /\ npushed' = npushed + 1
    /\ UNCHANGED <<threads_amount, queue_mutex, active, shutdown_request, wtask, wpush,
                   cpc, in_dtor, sort_vars, started, finished>>

\* wait(): lock; if (!task_queue.empty() || active > 0) wait_cv.wait(lock);
\* d tells whether the caller is the destructor
wait(d) ==
    /\ queue_mutex = NoThread
    /\ in_dtor' = d
    /\ cpc' = IF WaitMustBlock(task_queue, active) THEN "wait_blocked" ELSE AfterWait(d)

ClientWait ==
    /\ cpc = "ready"
    /\ wait(FALSE)
    /\ UNCHANGED <<pool_vars, npushed, sort_vars, hist_vars>>

\* wait_cv.wait may unblock spuriously
ClientSpuriousWake ==
    /\ cpc = "wait_blocked"
    /\ cpc' = "wait_woken"
    /\ UNCHANGED <<pool_vars, in_dtor, npushed, sort_vars, hist_vars>>

\* wait_cv.wait re-acquires the mutex and wait() returns (the condition is not
\* tested again)
ClientWaitReturn ==
    /\ cpc = "wait_woken"
    /\ queue_mutex = NoThread
    /\ cpc' = AfterWait(in_dtor)
    /\ UNCHANGED <<pool_vars, in_dtor, npushed, sort_vars, hist_vars>>

\* the statement after wait(): the test driver reads its counters and goes on
ClientResume ==
    /\ cpc = "waited"
    /\ cpc' = "ready"
    /\ UNCHANGED <<pool_vars, in_dtor, npushed, sort_vars, hist_vars>>

\* ---- ~thread_pool ----

\* the destructor's first statement: wait()
DtorWait ==
    /\ cpc = "ready"
    /\ wait(TRUE)
    /\ UNCHANGED <<pool_vars, npushed, sort_vars, hist_vars>>

\* shutdown_request = true (without the lock)
DtorShutdown ==
    /\ cpc = "d_flag"
    /\ shutdown_request' = TRUE
    /\ cpc' = "d_notify"
    /\ UNCHANGED <<threads_amount, task_queue, queue_mutex, active, wpc, wtask, wpush,
                   in_dtor, npushed, sort_vars, hist_vars>>

\* queue_cv.notify_all() (without the lock)
DtorNotify ==
    /\ cpc = "d_notify"
    /\ wpc' = NotifyAll(wpc)
    /\ cpc' = "d_members"
    /\ UNCHANGED <<threads_amount, task_queue, queue_mutex, active, shutdown_request,
                   wtask, wpush, in_dtor, npushed, sort_vars, hist_vars>>

\* the members are destroyed in reverse order of declaration: active,
\* shutdown_request, wait_cv, queue_cv, queue_mutex and task_queue go before
\* threads.  The destructor of task_queue destroys the tasks still queued.  The
\* storage of the pool stays allocated until the destructor returns, so the
\* workers go on using the mutex, the condition variables and the queue; a
\* worker that looks at the destroyed queue finds it empty, or finds what the
\* freed storage still holds.
DtorMembers ==
    /\ cpc = "d_members"
    /\ task_queue' \in {<<>>, task_queue}
    /\ cpc' = "d_join"
    /\ UNCHANGED <<threads_amount, queue_mutex, active, shutdown_request, wpc, wtask,
                   wpush, in_dtor, npushed, sort_vars, hist_vars>>

\* ~vector<future<void>>: each future of std::async blocks until its thread ended
DtorJoin ==
    /\ cpc = "d_join"
    /\ \A w \in 1..threads_amount : wpc[w] \in {"exited", "dead"}
    /\ cpc' = "destroyed"
    /\ UNCHANGED <<pool_vars, in_dtor, npushed, sort_vars, hist_vars>>

\* ---- the pool used directly (the test driver's pool tests) ----

\* thread_pool(threads_amount): one std::async thread per worker, none run yet
Spawn(n) == [w \in Workers |-> IF w <= n THEN "start" ELSE "none"]

Init ==
    /\ threads_amount \in 0..MaxThreads
    /\ task_queue = <<>>
    /\ queue_mutex = NoThread
    /\ active = 0
    /\ shutdown_request = FALSE
    /\ wpc = Spawn(threads_amount)
    /\ wtask = [w \in Workers |-> NoTask]
    /\ wpush = [w \in Workers |-> <<>>]
    /\ cpc = "ready"
    /\ in_dtor = FALSE
    /\ npushed = 0
    /\ arr = <<>>
    /\ chunk_size = 0
    /\ calls = 0
    /\ qs_env = "none"
    /\ input = <<>>
    /\ first_result = <<>>
    /\ pushed = {}
    /\ started = <<>>
    /\ finished = {}
    /\ uq = NoUnique

\* the steps a worker takes by running: all but the spurious wake-up
WorkerProgress(w) ==
    \/ WorkerLock(w)
    \/ WorkerPop(w)
    \/ TaskRun(w)
    \/ TaskPush(w)
    \/ TaskReturn(w)
    \/ WorkerIdle(w)
    \/ WorkerCheckShutdown(w)
    \/ WorkerWait(w)

WorkerStep(w) ==
    \/ WorkerProgress(w)
    \/ WorkerSpuriousWake(w)

Next ==
    \/ \E w \in Workers : WorkerStep(w)
    \/ ClientPush
    \/ ClientWait
    \/ ClientSpuriousWake
    \/ ClientWaitReturn
    \/ ClientResume

\* a pool that is alive: the client pushes and waits, the workers run
Spec == Init /\ [][Next]_vars

\* the scheduling the threads rely on: a thread that can take a step takes it,
\* and a thread that asks for a mutex that is released again and again gets it.
\* Nothing promises a spurious wake-up, nor that the client calls push() or
\* wait() again.
Fairness ==
    /\ \A w \in Workers : SF_vars(WorkerProgress(w))
    /\ SF_vars(ClientWaitReturn)

SpecFair == Spec /\ Fairness

\* ---- a second client thread ----

\* the tasks pushed by the second client
OtherTasks == {t \in pushed : t.id < 0}

\* tpool.push(f_without_arg) called by a second client thread while the first
\* one is inside wait()
OtherPush ==
    /\ cpc \in {"wait_blocked", "wait_woken"}
    /\ Cardinality(OtherTasks) < MaxOtherPush
    /\ add(Task("f_without_arg", 0, 0, 0 - (Cardinality(OtherTasks) + 1)))
    /\ UNCHANGED <<threads_amount, queue_mutex, active, shutdown_request, wtask, wpush,
                   cpc, in_dtor, npushed, sort_vars, started, finished>>

NextTwoClients ==
    \/ Next
    \/ OtherPush

SpecTwoClients == Init /\ [][NextTwoClients]_vars

\* ---- a task that throws ----

\* tpool.push(f) with an f that throws
ClientPushThrowing ==
    /\ cpc = "ready"
    /\ npushed < MaxPush
    /\ add(Task("f_throw", 0, 0, npushed + 1))
    /\ npushed' = npushed + 1
    /\ UNCHANGED <<threads_amount, queue_mutex, active, shutdown_request, wtask, wpush,
                   cpc, in_dtor, sort_vars, started, finished>>

\* task() throws: nothing in worker() catches, so the exception leaves worker()
\* and ends the thread (the future of std::async stores it).  The statements
\* after task(), queue_mutex.lock() and active--, are not executed.  Unwinding
\* destroys the unique_lock, which still counts itself owner and unlocks a mutex
\* this thread does not hold: that has no effect, or it releases the mutex under
\* the thread that holds it.
TaskThrow(w) ==
    /\ wpc[w] = "task"
    /\ wtask[w].f = "f_throw"
    /\ started' = Record(started, wtask[w])
    /\ wtask' = [wtask EXCEPT ![w] = NoTask]
    /\ wpc' = [wpc EXCEPT ![w] = "dead"]
    /\ queue_mutex' \in {queue_mutex, NoThread}
    /\ UNCHANGED <<threads_amount, task_queue, active, shutdown_request, wpush, cpc,
                   in_dtor, npushed, sort_vars, pushed, finished>>

NextThrow ==
    \/ Next
    \/ ClientPushThrowing
    \/ \E w \in Workers : TaskThrow(w)

SpecThrow == Init /\ [][NextThrow]_vars

\* the same, followed to the end of the pool's life
NextTeardown ==
    \/ Next
    \/ DtorWait
    \/ DtorShutdown
    \/ DtorNotify
    \/ DtorMembers
    \/ DtorJoin

SpecTeardown == Init /\ [][NextTeardown]_vars

\* the destructor runs on the client thread: once wait() has returned, each of
\* its statements is executed in turn
DtorProgress ==
    \/ DtorShutdown
    \/ DtorNotify
    \/ DtorMembers
    \/ DtorJoin

SpecTeardownFair == SpecTeardown /\ Fairness /\ WF_vars(DtorProgress)

\* ---- the reference the sort claims compare with ----

IsSorted(s) == \A i \in 1..(Len(s) - 1) : s[i] <= s[i + 1]

Occurrences(s, v) == Cardinality({i \in 1..Len(s) : s[i] = v})

IsPermutation(s, r) ==
    /\ Len(s) = Len(r)
    /\ \A i \in 1..Len(r) : Occurrences(s, r[i]) = Occurrences(r, r[i])

\* ---- mt::sort called by the client ----

\* the ranges given to sort(): every sequence of at most MaxLen values, and two
\* ranges long enough for a chunk_size above 1 with one thread
ShortInputs == UNION {[1..n -> 1..MaxVal] : n \in 0..MaxLen}

LongInputs ==
    { <<3, 1, 2, 3, 1, 2, 2, 1, 3, 3, 1, 2, 1, 3, 2, 1>>,
      <<1, 1, 2, 2, 2, 3, 3, 3, 3, 3, 3, 3, 3, 3, 3, 3>> }

\* size_t division: by zero the behaviour is undefined; the machine traps
\* (x86) or yields 0 (ARM)
DivOutcomes(x, y) ==
    IF y = 0
    THEN {[trap |-> TRUE, q |-> 0], [trap |-> FALSE, q |-> 0]}
    ELSE {[trap |-> FALSE, q |-> x \div y]}

\* what the references captured by the static closure designate in this call.
\* The closure is built once, in the first call, and captures that call's
\* chunk_size, pool and cmp by reference.  In a later call they dangle: they
\* designate the new call's locals when its frame lies where the first one lay,
\* and other memory when it does not.
ClosureEnv(env) == IF env = "none" THEN {"live"} ELSE {"alias", "stale"}

InitSort ==
    /\ \/ threads_amount \in 0..MaxThreads /\ arr \in ShortInputs
       \/ threads_amount = 1 /\ arr \in LongInputs
    /\ task_queue = <<>>
    /\ queue_mutex = NoThread
    /\ active = 0
    /\ shutdown_request = FALSE
    /\ wpc = Spawn(0)
    /\ wtask = [w \in Workers |-> NoTask]
    /\ wpush = [w \in Workers |-> <<>>]
    /\ cpc = "idle"
    /\ in_dtor = FALSE
    /\ npushed = 0
    /\ chunk_size = 0
    /\ calls = 0
    /\ qs_env = "none"
    /\ input = <<>>
    /\ first_result = <<>>
    /\ pushed = {}
    /\ started = <<>>
    /\ finished = {}
    /\ uq = NoUnique

\* sort() is entered: chunk_size = distance(begin, end) / (threads_amount * 8)
SortBegin ==
    /\ cpc \in {"idle", "returned"}
    /\ calls < MaxCalls
    /\ calls' = calls + 1
    /\ input' = arr
    /\ \E r \in DivOutcomes(Len(arr), threads_amount * 8) :
         IF r.trap
         THEN cpc' = "crashed" /\ UNCHANGED chunk_size
         ELSE cpc' = "s_pool" /\ chunk_size' = r.q
    /\ UNCHANGED <<pool_vars, in_dtor, npushed, arr, qs_env, first_result, hist_vars, uq>>

\* mt::thread_pool pool(threads_amount), and the static quick_sort, initialised
\* in the first call only
SortPool ==
    /\ cpc = "s_pool"
    /\ task_queue' = <<>>
    /\ queue_mutex' = NoThread
    /\ active' = 0
    /\ shutdown_request' = FALSE
    /\ wpc' = Spawn(threads_amount)
    /\ wtask' = [w \in Workers |-> NoTask]
    /\ wpush' = [w \in Workers |-> <<>>]
    /\ qs_env' \in ClosureEnv(qs_env)
    /\ pushed' = {}
    /\ started' = <<>>
    /\ finished' = {}
    /\ cpc' = "s_push"
    /\ UNCHANGED <<threads_amount, in_dtor, npushed, arr, chunk_size, calls, input,
                   first_result, uq>>

\* pool.push(quick_sort, begin, end): the root task, pushed to this call's pool
SortPush ==
    /\ cpc = "s_push"
    /\ add(Task("quick_sort", 0, Len(arr), 1))
    /\ cpc' = "ready"
    /\ UNCHANGED <<threads_amount, queue_mutex, active, shutdown_request, wtask, wpush,
                   in_dtor, npushed, sort_vars, started, finished>>

\* pool.push(...) from inside a task whose captured pool reference designates
\* other memory than this call's pool: the task goes to no pool that has
\* workers, or the process dies in the attempt
TaskPushStale(w) ==
    /\ wpc[w] = "push"
    /\ wpush[w] # <<>>
    /\ qs_env = "stale"
    /\ \/ /\ wpush' = [wpush EXCEPT ![w] = Tail(wpush[w])]
          /\ pushed' = pushed \cup {Head(wpush[w])}
          /\ UNCHANGED <<wpc, cpc>>
       \/ /\ cpc' = "crashed"
          /\ wpc' = Spawn(0)
          /\ UNCHANGED <<wpush, pushed>>
    /\ UNCHANGED <<threads_amount, task_queue, queue_mutex, active, shutdown_request,
                   wtask, in_dtor, npushed, sort_vars, started, finished>>

\* the pool's destructor has run at the closing brace: sort() returns
SortReturn ==
    /\ cpc = "destroyed"
    /\ cpc' = "returned"
    /\ first_result' = IF calls = 1 THEN arr ELSE first_result
    /\ UNCHANGED <<pool_vars, in_dtor, npushed, arr, chunk_size, calls, qs_env, input,
                   hist_vars, uq>>

\* between two calls the caller may put the values of its range in another
\* order (the test driver sorts a range of fresh random values in each test)
Refills(s) == {r \in [1..Len(s) -> 1..MaxVal] : IsPermutation(r, s)} \ {s}

SortRefill ==
    /\ cpc = "returned"
    /\ calls < MaxCalls
    /\ Len(arr) <= MaxLen
    /\ arr' \in Refills(arr)
    /\ cpc' = "idle"
    /\ UNCHANGED <<pool_vars, in_dtor, npushed, chunk_size, calls, qs_env, input,
                   first_result, hist_vars, uq>>

NextSort ==
    \/ \E w \in Workers : WorkerStep(w)
    \/ \E w \in Workers : TaskPushStale(w)
    \/ SortBegin
    \/ SortPool
    \/ SortPush
    \/ DtorWait
    \/ ClientSpuriousWake
    \/ ClientWaitReturn
    \/ DtorShutdown
    \/ DtorNotify
    \/ DtorMembers
    \/ DtorJoin
    \/ SortReturn
    \/ SortRefill

SpecSort == InitSort /\ [][NextSort]_vars

\* a process that calls sort() once, on a range shorter than 8 * threads_amount
\* (the threshold chunk_size is 0 and every range longer than 1 is partitioned)
InitSortShort == InitSort /\ arr \in ShortInputs

SortBeginFirst == calls = 0 /\ SortBegin

NextSortOnce ==
    \/ \E w \in Workers : WorkerStep(w)
    \/ SortBeginFirst
    \/ SortPool
    \/ SortPush
    \/ DtorWait
    \/ ClientSpuriousWake
    \/ ClientWaitReturn
    \/ DtorShutdown
    \/ DtorNotify
    \/ DtorMembers
    \/ DtorJoin
    \/ SortReturn

\* the scheduling of that call: the workers take their steps and the client
\* goes through the destructor
SpecSortOnceFair ==
    /\ InitSortShort
    /\ [][NextSortOnce]_vars
    /\ Fairness
    /\ WF_vars(DtorWait)
    /\ WF_vars(DtorProgress)

\* ---- mt::unique ----

\* the predicates given to unique(): std::equal_to, and an equivalence coarser
\* than equality (two values are equivalent when they have the same key)
Key(v) == (v + 1) \div 2

P(pred, a, b) == IF pred = "equal_to" THEN a = b ELSE Key(a) = Key(b)

Preds == {"equal_to", "same_key"}

\* std::unique(first, last) with operator==, on the elements s[b+1..e]: dest
\* stays on the last element kept, every element that differs from it is moved
\* behind it; the elements behind the new end keep what they held
RECURSIVE UniqueLoop(_, _, _, _)
UniqueLoop(s, dest, cur, e) ==
    IF cur > e THEN [arr |-> s, last |-> dest]
    ELSE IF s[dest] = s[cur]
         THEN UniqueLoop(s, dest, cur + 1, e)
         ELSE UniqueLoop([s EXCEPT ![dest + 1] = s[cur]], dest + 1, cur + 1, e)

StdUnique(s, b, e) ==
    IF b >= e THEN [arr |-> s, last |-> e] ELSE UniqueLoop(s, b + 1, b + 2, e)

\* the chunk of the i-th std::async (i counted from 0): [_begin, _end)
\* mutant of ChunkBegin: the chunks start as if part_size were rounded up
ChunkBeginRoundedUp(u, i) == (u.part_size + 1) * i

ChunkBegin(u, i) == u.part_size * i

\* mutant of ChunkEnd: the last chunk does not take the remainder
ChunkEndNoRemainder(u, i, n, len) == u.part_size * (i + 1)

ChunkEnd(u, i, n, len) == IF i = n - 1 THEN len ELSE u.part_size * (i + 1)

\* std::copy(first, last, d_first) on offsets: the n elements behind b go behind d
Copy(s, b, n, d) ==
    [k \in 1..Len(s) |-> IF k > d /\ k <= d + n THEN s[b + (k - d)] ELSE s[k]]

\* one pass of the merge loop for chunk i.  The result is the set of outcomes:
\* the two elements compared by p are read where the iterators point, in the
\* range or not; a read outside the range yields any value or ends the process;
\* a copy of a range whose end lies before its begin copies nothing or ends the
\* process
MergeOutcomes(s, u, i) ==
    LET b == ChunkBegin(u, i)
        l == u.ends[i + 1]
        inside == b >= 0 /\ b < Len(s) /\ u.last >= 1 /\ u.last <= Len(s)
        verdicts == IF inside THEN {P(u.pred, s[b + 1], s[u.last])} ELSE BOOLEAN
        Step(pv) ==
            LET b2 == IF pv THEN b + 1 ELSE b
                n == l - b2
            IN  IF n < 0 \/ u.last < 0
                THEN {[crash |-> TRUE, arr |-> s, last |-> u.last, oob |-> TRUE],
                      [crash |-> FALSE, arr |-> s, last |-> u.last + n, oob |-> TRUE]}
                ELSE {[crash |-> FALSE, arr |-> Copy(s, b2, n, u.last),
                       last |-> u.last + n, oob |-> ~inside]}
    IN  (IF inside THEN {}
         ELSE {[crash |-> TRUE, arr |-> s, last |-> u.last, oob |-> TRUE]})
        \cup UNION {Step(pv) : pv \in verdicts}

\* unique() is entered: part_size = distance(begin, end) / threads_amount
UniqueBegin ==
    /\ cpc = "u_idle"
    /\ input' = arr
    /\ \E r \in DivOutcomes(Len(arr), threads_amount) :
         IF r.trap
         THEN cpc' = "crashed" /\ UNCHANGED uq
         ELSE cpc' = "u_spawn" /\ uq' = [uq EXCEPT !.part_size = r.q]
    /\ UNCHANGED <<pool_vars, in_dtor, npushed, arr, chunk_size, calls, qs_env,
                   first_result, hist_vars>>

\* one pass of the first loop: threads.push_back(std::async(...)) for the next chunk
UniqueSpawn ==
    /\ cpc = "u_spawn"
    /\ uq.spawned < threads_amount
    /\ uq' = [uq EXCEPT !.spawned = @ + 1, !.ends = Append(@, 0)]
    /\ UNCHANGED <<pool_vars, cpc, in_dtor, npushed, arr, chunk_size, calls, qs_env,
                   input, first_result, hist_vars>>

\* the thread of the k-th std::async runs std::unique(_begin, _end): no predicate
ChunkRun(k) ==
    /\ k \in 1..uq.spawned
    /\ k \notin uq.done
    /\ cpc # "crashed"
    /\ LET r == StdUnique(arr, ChunkBegin(uq, k - 1),
                          ChunkEnd(uq, k - 1, threads_amount, Len(arr)))
       IN  /\ arr' = r.arr
           /\ uq' = [uq EXCEPT !.done = @ \cup {k}, !.ends[k] = r.last]
    /\ UNCHANGED <<pool_vars, cpc, in_dtor, npushed, chunk_size, calls, qs_env,
                   input, first_result, hist_vars>>

\* auto last = threads[0].get(): blocks until the first chunk is done.  With
\* no thread the vector is empty and threads[0] is no future: the call throws
\* std::future_error or ends the process
UniqueFirst ==
    /\ cpc = "u_spawn"
    /\ uq.spawned = threads_amount
    /\ IF threads_amount = 0
       THEN cpc' \in {"crashed", "threw"} /\ uq' = [uq EXCEPT !.oob = TRUE]
       ELSE /\ 1 \in uq.done
            /\ cpc' = "u_merge"
            /\ uq' = [uq EXCEPT !.last = uq.ends[1], !.i = 1]
    /\ UNCHANGED <<pool_vars, in_dtor, npushed, arr, chunk_size, calls, qs_env,
                   input, first_result, hist_vars>>

\* one pass of the second loop: _last = threads[i].get(), the comparison of the
\* chunk's first element with *(last - 1), the copy, last += distance
UniqueMerge ==
    /\ cpc = "u_merge"
    /\ uq.i < threads_amount
    /\ uq.i + 1 \in uq.done
    /\ \E r \in MergeOutcomes(arr, uq, uq.i) :
         /\ arr' = r.arr
         /\ cpc' = IF r.crash THEN "crashed" ELSE cpc
         /\ uq' = [uq EXCEPT !.last = r.last, !.i = @ + 1, !.oob = @ \/ r.oob]
    /\ UNCHANGED <<pool_vars, in_dtor, npushed, chunk_size, calls, qs_env, input,
                   first_result, hist_vars>>

\* return last
UniqueReturn ==
    /\ cpc = "u_merge"
    /\ uq.i >= threads_amount
    /\ cpc' = "u_returned"
    /\ UNCHANGED <<pool_vars, in_dtor, npushed, sort_vars, hist_vars>>

\* the ranges given to unique(): the sorted sequences of at most MaxLen values
SortedInputs == {s \in ShortInputs : \A k \in 1..(Len(s) - 1) : s[k] <= s[k + 1]}

\* the thread counts given to unique(): from none to one more than the longest range
UniqueThreads == 0..(MaxLen + 1)

InitUnique ==
    /\ threads_amount \in UniqueThreads
    /\ arr \in SortedInputs
    /\ \E pr \in Preds : uq = [NoUnique EXCEPT !.pred = pr]
    /\ task_queue = <<>>
    /\ queue_mutex = NoThread
    /\ active = 0
    /\ shutdown_request = FALSE
    /\ wpc = Spawn(0)
    /\ wtask = [w \in Workers |-> NoTask]
    /\ wpush = [w \in Workers |-> <<>>]
    /\ cpc = "u_idle"
    /\ in_dtor = FALSE
    /\ npushed = 0
    /\ chunk_size = 0
    /\ calls = 0
    /\ qs_env = "none"
    /\ input = <<>>
    /\ first_result = <<>>
    /\ pushed = {}
    /\ started = <<>>
    /\ finished = {}

NextUnique ==
    \/ UniqueBegin
    \/ UniqueSpawn
    \/ \E k \in 1..(MaxLen + 1) : ChunkRun(k)
    \/ UniqueFirst
    \/ UniqueMerge
    \/ UniqueReturn

SpecUnique == InitUnique /\ [][NextUnique]_vars

\* ---- the reference the unique claims compare with ----

\* sequential removal of adjacent duplicates under p: an element is kept when
\* it is the first or is not equivalent to the one before it
KeptIndices(s, pred) ==
    {k \in 1..Len(s) : k = 1 \/ ~P(pred, s[k - 1], s[k])}

RECURSIVE Pick(_, _, _)
Pick(s, keep, k) ==
    IF k > Len(s) THEN <<>>
    ELSE (IF k \in keep THEN <<s[k]>> ELSE <<>>) \o Pick(s, keep, k + 1)

RefUnique(s, pred) == Pick(s, KeptIndices(s, pred), 1)

\* what the caller holds after unique() returned last: [begin, last)
Result == IF uq.last >= 0 /\ uq.last <= Len(arr) THEN SubSeq(arr, 1, uq.last) ELSE <<-1>>

\* ---- what the claims speak about ----

\* the workers that are between active++ and active--
Draining == {w \in Workers : wpc[w] \in {"drain", "task", "push"}}

\* the workers that are executing a task
Running == {w \in Workers : wpc[w] \in {"task", "push"}}

\* the tasks handed to push() that have not returned
Unfinished == {t \in pushed : t.id \notin finished}

\* the tasks handed to push() that no worker has begun to run
NotStarted == {t \in pushed : t \notin DOMAIN started}

InQueue(t) == Cardinality({i \in 1..Len(task_queue) : task_queue[i] = t})

InHand(t) == Cardinality({w \in Workers : wtask[w] = t})

Done(t) == IF t.id \in finished THEN 1 ELSE 0

\* C1: with at least one worker and pushes made only by the waiting thread and
\* by running tasks, when wait() has returned the queue is empty, no task is
\* running and every task pushed so far has finished.
C1_WaitBarrier ==
    (cpc = "waited" /\ threads_amount >= 1)
        => (task_queue = <<>> /\ Running = {} /\ Unfinished = {})

\* C2: every task handed to push() is in exactly one place (queued, held by one
\* worker, or finished), is run at most once, has run exactly once when it has
\* finished, and is run with the arguments given to push().
C2_ExactlyOnce ==
    /\ \A t \in pushed : InQueue(t) + InHand(t) + Done(t) = 1
    /\ \A t \in DOMAIN started : t \in pushed /\ started[t] = 1
    /\ \A t \in pushed : t.id \in finished => t \in DOMAIN started

\* two workers compete: both are running a task while a third task is queued
C2_Witness ==
    /\ threads_amount = 2
    /\ Running = {1, 2}
    /\ wtask[1] # wtask[2]
    /\ task_queue # <<>>
    /\ \E t \in pushed : t.f = "f_with_args" /\ t.a = 123 /\ t.b = 456 /\ t.id \in finished

\* C3: with at least one worker and fair scheduling, a task is never left queued
\* while every worker is blocked on the work signal and the mutex is free, and
\* every task handed to push() is eventually begun by a worker.
C3_TaskEventuallyStarts ==
    /\ []((threads_amount >= 1 /\ task_queue # <<>> /\ queue_mutex = NoThread)
            => \E w \in 1..threads_amount : wpc[w] # "blocked")
    /\ ((threads_amount >= 1 /\ NotStarted # {}) ~> (NotStarted = {}))

\* a task is queued while one worker is busy in a task and the other, blocked
\* until then, has been unblocked by notify_one and has yet to take the mutex
C3_Witness ==
    /\ threads_amount = 2
    /\ task_queue # <<>>
    /\ wpc[1] = "push"
    /\ wpc[2] = "woken"
    /\ queue_mutex = NoThread

\* C4: with at least one worker, fair scheduling and tasks that return, a client
\* is blocked in wait() only while a task is queued or a worker is draining, and
\* every wait() it is blocked in eventually returns.
C4_WaitReturns ==
    /\ []((threads_amount >= 1 /\ cpc = "wait_blocked")
            => WaitMustBlock(task_queue, active))
    /\ ((threads_amount >= 1 /\ cpc \in {"wait_blocked", "wait_woken"}) ~> (cpc = "waited"))

\* a wait() that had to block has returned after the tasks finished
C4_Witness ==
    /\ threads_amount >= 1
    /\ cpc = "waited"
    /\ pushed # {}
    /\ Unfinished = {}
    /\ \A w \in 1..threads_amount : wpc[w] = "blocked"

\* C5: when the destructor has finished, every task ever pushed has finished
\* and every worker thread has ended.
C5_TeardownComplete ==
    (cpc = "destroyed" /\ threads_amount >= 1)
        => (Unfinished = {} /\ \A w \in 1..threads_amount : wpc[w] = "exited")

\* C6: a task that throws does not end the worker that ran it, and the active
\* count is what it is after a task that returns: the number of workers that are
\* between active++ and active--.
C6_FailureIsolated ==
    /\ \A w \in Workers : wpc[w] # "dead"
    /\ active = Cardinality(Draining)

\* C7: a thread count of zero is rejected at the call: sort() with zero threads
\* neither evaluates range_length / (threadCount * 8) nor builds a pool without
\* workers; it leaves the call at once.
C7_ZeroRejected ==
    threads_amount = 0 => cpc \in {"idle", "rejected"}

\* C8: with at least one thread, when sort() has returned the range is a
\* permutation of the range it was given, in non-decreasing order.
C8_SortCorrect ==
    (cpc = "returned" /\ threads_amount >= 1)
        => (IsSorted(arr) /\ IsPermutation(arr, input))

\* C9: a second call of sort() in the same process, on the range the first call
\* left, runs to its end and leaves the range as the first call left it, which
\* is the sorted permutation of the original range.
C9_SortIdempotent ==
    /\ (calls >= 2 /\ threads_amount >= 1) => cpc # "crashed"
    /\ (cpc = "returned" /\ calls >= 2 /\ threads_amount >= 1 /\ input = first_result)
          => (arr = first_result /\ IsSorted(arr) /\ IsPermutation(arr, input))

\* C10: with at least one thread, when sort() has returned no task of the call is
\* queued or running and every task pushed during the call has finished.
C10_SortReturnsAfterTasks ==
    (cpc = "returned" /\ threads_amount >= 1)
        => (task_queue = <<>> /\ Running = {} /\ Unfinished = {})

\* the number of distinct values of a sequence
Distinct(s) == Cardinality({s[k] : k \in 1..Len(s)})

\* C11: for a sorted range and 1 <= threads_amount <= length, when unique()
\* with std::equal_to has returned, [begin, last) has no two adjacent equal
\* elements, has as many elements as the input has distinct values, and is the
\* input with adjacent duplicates removed sequentially.
C11_UniqueCorrect ==
    (cpc = "u_returned" /\ uq.pred = "equal_to"
        /\ threads_amount >= 1 /\ threads_amount <= Len(input))
        => /\ Result = RefUnique(input, "equal_to")
           /\ Len(Result) = Distinct(input)
           /\ \A k \in 1..(Len(Result) - 1) : Result[k] # Result[k + 1]

\* a run of equal values that fills whole chunks and spans every chunk boundary
C11_Witness ==
    /\ cpc = "u_returned"
    /\ uq.pred = "equal_to"
    /\ threads_amount = 3
    /\ input = <<1, 1, 1>>
    /\ Result = <<1>>

\* C12: for a sorted range, 1 <= threads_amount <= length and a predicate p
\* coarser than equality, when unique() has returned, [begin, last) is the
\* input with adjacent p-duplicates removed sequentially: one element per run
\* of p-equivalent elements, inside the chunks and across their boundaries.
C12_UniquePredicate ==
    (cpc = "u_returned" /\ uq.pred = "same_key"
        /\ threads_amount >= 1 /\ threads_amount <= Len(input))
        => Result = RefUnique(input, "same_key")

\* C13: with a thread count of zero or above the length of the range, unique()
\* is left at once with an error: it does not divide, spawns no chunk, and
\* dereferences nothing outside the range.
C13_UniqueRejects ==
    (threads_amount = 0 \/ threads_amount > Len(arr))
        => (cpc \in {"u_idle", "rejected"} /\ uq.spawned = 0 /\ ~uq.oob)

\* C14: on an empty range unique(), called with at least one thread, spawns no
\* thread, dereferences no element, does not end the process, and returns begin.
C14_UniqueEmpty ==
    (Len(arr) = 0 /\ threads_amount >= 1
        /\ cpc \in {"u_spawn", "u_merge", "u_returned", "crashed", "threw"})
        => /\ uq.spawned = 0
           /\ ~uq.oob
           /\ cpc \notin {"crashed", "threw"}
           /\ cpc = "u_returned" => uq.last = 0

\* a worker blocked in queue_cv.wait after the destructor's notify_all
LostShutdownWakeup ==
    /\ threads_amount >= 1
    /\ cpc \in {"d_members", "d_join"}
    /\ \E w \in 1..threads_amount : wpc[w] = "blocked"

\* C15: with at least one worker, tasks that return and fair scheduling, no
\* worker is left blocked on queue_cv once the destructor has sent its
\* notify_all, and a destructor that has started eventually returns.
C15_TeardownTerminates ==
    /\ [](~LostShutdownWakeup)
    /\ ((threads_amount >= 1 /\ in_dtor) ~> (cpc = "destroyed"))

\* C16: in every sort() call, the first and the later ones, a running
\* quick_sort task reads chunk_size, pool and cmp of the call that pushed its
\* root task: the references of the closure designate objects that are alive and
\* belong to the current call.
C16_ClosureOwnCall ==
    \A w \in Workers :
        (threads_amount >= 1 /\ wpc[w] \in {"task", "push"} /\ wtask[w].f = "quick_sort")
            => qs_env = "live"

\* wait() returns to the first client in this step
WaitReturns == cpc \in {"ready", "wait_woken"} /\ cpc' = "waited"

\* C17: with at least one worker, when wait() returns, every task a second
\* client pushed while the wait was in progress has finished: a push that
\* races with wait() is either waited for or made after wait() returned.
C17_RacingPushWaited ==
    [][(WaitReturns /\ threads_amount >= 1)
           => \A t \in OtherTasks : t.id \in finished]_vars

\* worker w leaves its drain loop in this step and calls wait_cv.notify_all()
SignalIssued(w) ==
    /\ wpc[w] = "drain"
    /\ wpc'[w] = "chk"
    /\ QuiescenceSignal(active')

\* C18: a worker calls wait_cv.notify_all() only when the queue is empty, the
\* active count is 0 and no worker holds or runs a task, whatever the other
\* workers are doing.
C18_SignalOnlyWhenQuiescent ==
    [][\A w \in Workers :
           SignalIssued(w)
               => (task_queue = <<>> /\ active' = 0 /\ Running = {} /\ Draining' = {})]_vars

\* a worker went through its loop with the queue empty while the other one runs
\* a task: it has not signalled, the client is still blocked in wait()
C18_Witness ==
    /\ threads_amount = 2
    /\ wpc[2] = "chk"
    /\ wpc[1] = "task"
    /\ active = 1
    /\ task_queue = <<>>
    /\ cpc = "wait_blocked"

\* worker w takes this step and holds queue_mutex while it does
WorkerHolds(w) == wpc'[w] # wpc[w] /\ (queue_mutex = w \/ queue_mutex' = w)

\* the step is a call of add(): the lock_guard holds queue_mutex from its first
\* statement to its last
InAdd == pushed' # pushed

\* the step writes the queue, the active count or the shutdown flag
SharedWritten ==
    \/ task_queue' # task_queue
    \/ active' # active
    \/ shutdown_request' # shutdown_request

\* worker w reads the shutdown flag in this step
FlagRead(w) == wpc[w] = "chk" /\ wpc'[w] # "chk"

\* C19: every step that writes task_queue, active or shutdown_request, and every
\* read of shutdown_request by a worker, is taken by a thread that holds
\* queue_mutex during the step.
C19_LockDiscipline ==
    [][/\ SharedWritten => (InAdd \/ \E w \in Workers : WorkerHolds(w))
       /\ \A w \in Workers : FlagRead(w) => queue_mutex = w]_vars

\* worker w returns from worker() in this step
Exits(w) == wpc[w] # "exited" /\ wpc'[w] = "exited"

\* C20: a worker returns from worker() only when it holds queue_mutex and sees
\* shutdown_request set, the queue empty and the active count zero, and holds no
\* task; the shutdown flag, once set, stays set.
C20_ExitOnlyAtShutdown ==
    [][/\ \A w \in Workers :
            Exits(w) => /\ shutdown_request
                        /\ queue_mutex = w
                        /\ task_queue = <<>>
                        /\ active = 0
                        /\ wtask[w] = NoTask
       /\ shutdown_request => shutdown_request']_vars

\* the elements of the caller's range a quick_sort task is given: [begin, end)
Range(t) == IF t.f = "quick_sort" THEN (t.a + 1)..t.b ELSE {}

\* the tasks in the queue
Queued == {task_queue[k] : k \in 1..Len(task_queue)}

\* the tasks a worker has taken and not yet called
Taken == {wtask[w] : w \in {x \in Workers : wpc[x] = "task"}}

\* the tasks whose body has run its partition passes and is making its pushes
Pushing == {wtask[w] : w \in {x \in Workers : wpc[x] = "push"}}

\* the tasks a running task is about to push
ToPush == UNION {{wpush[w][k] : k \in 1..Len(wpush[w])} : w \in Workers}

PairwiseDisjoint(ts) ==
    \A t \in ts : \A u \in ts : (t # u) => (Range(t) \cap Range(u) = {})

\* the task that pushed t has run its body
ParentRan(t) == t.id < 10 \/ \E q \in DOMAIN started : q.id = t.id \div 10

\* C21 as stated: during a sort() call the sub-ranges of all tasks that are
\* queued or executing at the same time are pairwise disjoint.
C21_AllTasksDisjoint ==
    threads_amount >= 1 => PairwiseDisjoint(Queued \cup Taken \cup Pushing)

\* C21, amended: during a sort() call the sub-ranges of the tasks that have
\* element accesses still to make (queued, taken by a worker and not yet called,
\* or about to be pushed) are pairwise disjoint, and each of them exists only
\* after the task that pushes it has run both of its partition passes; a task
\* that is making its pushes touches no element any more.
C21_AccessingTasksDisjoint ==
    threads_amount >= 1 =>
        /\ PairwiseDisjoint(Queued \cup Taken \cup ToPush)
        /\ \A t \in Queued \cup Taken \cup ToPush : ParentRan(t)

\* two workers hold the two sub-ranges of one partition step at the same time
C21_Witness ==
    /\ threads_amount = 2
    /\ qs_env = "live"
    /\ wpc[1] = "task" /\ wpc[2] = "task"
    /\ wtask[1].id \div 10 = wtask[2].id \div 10
    /\ Range(wtask[1]) # {} /\ Range(wtask[2]) # {}

\* the number of elements of the sub-range a task is given
Size(t) == t.b - t.a

\* the quick_sort tasks submitted or about to be submitted by a partition step
Submitted == {t \in pushed \cup ToPush : t.f = "quick_sort" /\ t.id >= 10}

\* no task is queued, held or running, and no push is still to come
Quiescent == task_queue = <<>> /\ active = 0 /\ Running = {} /\ ToPush = {}

\* C22: every task a partition step submits has a sub-range strictly shorter
\* than the one that was partitioned, so one sort() call submits at most one
\* task more than twice the length of its range, and, with at least one thread
\* and fair scheduling, once the root task is pushed the pool becomes quiescent.
C22_FanOutTerminates ==
    /\ [](\A t \in Submitted :
              /\ Size(t) >= 0
              /\ \E q \in DOMAIN started : q.id = t.id \div 10 /\ Size(t) < Size(q))
    /\ [](Cardinality({t \in pushed : t.f = "quick_sort"}) <= 2 * Len(arr) + 1)
    /\ ((threads_amount >= 1 /\ task_queue # <<>>) ~> Quiescent)

\* an all-equal range was partitioned with threshold 0: the root and its two
\* empty sub-ranges have run and the pool is quiescent
C22_Witness ==
    /\ threads_amount >= 1
    /\ input = <<1, 1, 1>>
    /\ chunk_size = 0
    /\ finished = {1, 11, 12}
    /\ Quiescent

\* the merge loop is in front of the pass for chunk uq.i
BeforeMerge == cpc = "u_merge" /\ uq.i < threads_amount

\* the offsets of the range whose element one step changes
Written == {k \in 1..Len(arr) : arr'[k] # arr[k]}

\* C23: in the merge loop of unique(), before the pass for chunk i (i >= 1)
\* begin < last <= start of chunk i; after the pass last <= end of chunk i;
\* the pass reads no element outside the range, every element it writes lies
\* at or behind the old last, before the new last and before the start of
\* chunk i + 1, and holds a value read at the same offset or behind it inside
\* chunk i.
C23_MergePointers ==
    /\ [](BeforeMerge => (0 < uq.last /\ uq.last <= ChunkBegin(uq, uq.i)))
    /\ [][UniqueMerge =>
            /\ cpc' # "crashed"
            /\ ~uq'.oob
            /\ uq'.last <= ChunkEnd(uq, uq.i, threads_amount, Len(arr))
            /\ \A k \in Written :
                 /\ uq.last < k
                 /\ k <= uq'.last
                 /\ k <= ChunkEnd(uq, uq.i, threads_amount, Len(arr))
                 /\ \E r \in k..ChunkEnd(uq, uq.i, threads_amount, Len(arr)) :
                      r > ChunkBegin(uq, uq.i) /\ arr'[k] = arr[r]]_vars

\* the offsets of chunk i (counted from 0) as the spawn loop cuts it
Chunk(i) == (ChunkBegin(uq, i) + 1)..ChunkEnd(uq, i, threads_amount, Len(arr))

\* C24: for 1 <= threads_amount <= length, unique() cuts [begin, end) into
\* exactly threads_amount chunks: part_size is length / threads_amount rounded
\* down, the first chunk starts at begin, each chunk starts where the one
\* before it ends, every chunk but the last has part_size elements, the last
\* ends at end, no chunk is empty, no two chunks share an element and together
\* they are the whole range; one thread is started per chunk, each thread
\* writes inside its chunk only and returns an end inside it, and the merge
\* loop takes chunk i from the start the spawn loop gave it.
C24_ChunksPartition ==
    /\ []((threads_amount >= 1 /\ threads_amount <= Len(arr) /\ cpc # "u_idle") =>
            /\ cpc \in {"u_spawn", "u_merge", "u_returned"}
            /\ uq.part_size = Len(arr) \div threads_amount
            /\ uq.spawned <= threads_amount
            /\ (cpc # "u_spawn" => uq.spawned = threads_amount)
            /\ ChunkBegin(uq, 0) = 0
            /\ \A i \in 0..(threads_amount - 1) :
                 /\ Chunk(i) # {}
                 /\ i < threads_amount - 1 =>
                      /\ Cardinality(Chunk(i)) = Len(arr) \div threads_amount
                      /\ ChunkEnd(uq, i, threads_amount, Len(arr)) = ChunkBegin(uq, i + 1)
                 /\ i = threads_amount - 1 =>
                      ChunkEnd(uq, i, threads_amount, Len(arr)) = Len(arr)
                 /\ \A j \in 0..(threads_amount - 1) :
                      i # j => Chunk(i) \cap Chunk(j) = {}
            /\ UNION {Chunk(i) : i \in 0..(threads_amount - 1)} = 1..Len(arr))
    /\ [][(threads_amount >= 1 /\ threads_amount <= Len(arr)) =>
            /\ \A k \in 1..(MaxLen + 1) :
                 ChunkRun(k) => /\ Written \subseteq Chunk(k - 1)
                                /\ uq'.ends[k] \in Chunk(k - 1)
            /\ UniqueMerge => /\ uq.ends[uq.i + 1] \in Chunk(uq.i)
                              /\ Written \subseteq
                                   (uq.last + 1)..ChunkEnd(uq, uq.i, threads_amount, Len(arr))]_vars

\* two threads on three elements: the chunks are [0, 1) and [1, 3), the last
\* one takes the remainder, and both have been merged
C24_Witness ==
    /\ cpc = "u_returned"
    /\ threads_amount = 2
    /\ input = <<1, 2, 2>>
    /\ uq.part_size = 1
    /\ uq.spawned = 2
    /\ uq.done = {1, 2}
    /\ Chunk(0) = {1}
    /\ Chunk(1) = {2, 3}
====
